---- MODULE Spec2Model ----
(***************************************************************************)
(* Model of src/src/lib.rs: an Android application with one Slint window   *)
(* (MainWindow, one string property gps-text bound to a read-only field)   *)
(* and one detached worker thread that runs get_gps_coordinates() over JNI *)
(* and then tries to put the formatted outcome into the property.          *)
(*                                                                         *)
(* Two threads are modelled: the main thread (android_main: spawn the      *)
(* worker, run the event loop, return when the window is closed) and the   *)
(* worker (the closure of std::thread::spawn).                             *)
(*                                                                         *)
(* A coordinate is a 64-bit float in the program.  The model draws         *)
(* coordinates from the floats that are whole multiples of 1/32, which are *)
(* exactly representable, and stores such a float as the integer number of *)
(* 32nds; {:.4} formatting is then computed exactly (FormatFixed4).        *)
(***************************************************************************)
EXTENDS Integers, Sequences, FiniteSets, TLC

(* Cap on the number of frames the event loop renders in one run. *)
MaxRenders == 2

VARIABLES
    mainPc,       \* main thread: "spawn" (line 44), "run" (line 75), "returned"
    windowAlive,  \* a strong handle to the MainWindow component exists
    gps_text,     \* the MainWindow property gps-text
    displayed,    \* what the LineEdit showed in the last rendered frame
    renders,      \* frames rendered so far
    exited,       \* the process has been terminated
    pc,           \* worker position
    hung,         \* the worker is inside a platform call that never returns
    trace,        \* the interop steps the worker has performed, in order
    latitude,     \* local `latitude` of get_gps_coordinates
    result,       \* value returned by get_gps_coordinates
    text,         \* local `text` / `error_text` of the worker closure
    applied,      \* what window_weak.upgrade() met: "none", "alive", "destroyed"
    writes,       \* number of set_gps_text calls
    badWrite,     \* a set_gps_text was performed on a destroyed window
    frameAfterApply, \* the last rendered frame was drawn after the worker's apply step
    spawns        \* number of worker threads spawned

vars == <<mainPc, windowAlive, gps_text, displayed, renders, exited, pc, hung,
          trace, latitude, result, text, applied, writes, badWrite, frameAfterApply,
          spawns>>

uiVars == <<mainPc, windowAlive, displayed, renders, exited, frameAfterApply, spawns>>
fetchVars == <<hung, trace, latitude, result>>
applyVars == <<gps_text, text, applied, writes, badWrite>>

-----------------------------------------------------------------------------
(* Values *)

Placeholder == "Aguardando dados de GPS..."

UiThread == "android_main"
WorkerThread == "gps"

(* Return values of Context.checkSelfPermission: PERMISSION_GRANTED = 0,   *)
(* PERMISSION_DENIED = -1.                                                 *)
PermissionVals == {0, -1}

(* Object handles returned over JNI: 0 is the null reference. *)
HandleVals == {0, 1}

(* jboolean *)
BoolVals == {0, 1}

(* Coordinates in 32nds of a degree: -46.625, -23.5, 0.03125, 0.09375. *)
CoordVals == {-1492, -752, 1, 3}

(* Display texts of the jni crate's errors that `?` boxes and propagates. *)
InteropMsgs == {"Java exception was thrown", "JNI call failed"}

ErrContext == "Contexto Android não disponível"
ErrPermission == "Permissão de localização não concedida"
ErrService == "Serviço de localização não disponível"
ErrProvider == "Provedor GPS está desativado"
ErrNoLocation == "Nenhuma localização conhecida disponível"

NoResult == [kind |-> "None", lat |-> 0, lon |-> 0, reason |-> ""]

OkSwapped(lat, lon) == [kind |-> "Ok", lat |-> lon, lon |-> lat, reason |-> ""]

OkResult(lat, lon) == [kind |-> "Ok", lat |-> lat, lon |-> lon, reason |-> ""]

ErrResult(reason) == [kind |-> "Err", lat |-> 0, lon |-> 0, reason |-> reason]

Step(call, status, val) == [call |-> call, status |-> status, val |-> val]

-----------------------------------------------------------------------------
(* Formatting *)

(* The four digits after the decimal point of q ten-thousandths. *)
Frac4(q) ==
    LET f == q % 10000
    IN  ToString(f \div 1000) \o ToString((f \div 100) % 10)
            \o ToString((f \div 10) % 10) \o ToString(f % 10)

(* format!("{:.4}", x) for the float x = n/32: the exact decimal expansion *)
(* rounded to four places, an exact tie going to the even digit; the sign  *)
(* is printed for negative values.                                         *)
FormatFixed4(n) ==
    LET mag    == IF n < 0 THEN -n ELSE n
        scaled == mag * 10000
        q0     == scaled \div 32
        r      == scaled % 32
        q      == IF 2 * r > 32 \/ (2 * r = 32 /\ q0 % 2 = 1) THEN q0 + 1 ELSE q0
    IN  (IF n < 0 THEN "-" ELSE "") \o ToString(q \div 10000) \o "." \o Frac4(q)

MatchTextNoPrefix(r) ==
    IF r.kind = "Ok"
    THEN "Latitude: " \o FormatFixed4(r.lat) \o ", Longitude: " \o FormatFixed4(r.lon)
    ELSE r.reason

(* The two arms of `match get_gps_coordinates()`: the text each one builds. *)
MatchText(r) ==
    IF r.kind = "Ok"
    THEN "Latitude: " \o FormatFixed4(r.lat) \o ", Longitude: " \o FormatFixed4(r.lon)
    ELSE "Erro: " \o r.reason

-----------------------------------------------------------------------------
(* slint::Weak<MainWindow>::upgrade() called on `thread`.  A Weak handle   *)
(* records the thread that created the component and resolves only there:  *)
(* on any other thread upgrade() is None whether or not the window exists  *)
(* (the cross-thread route is upgrade_in_event_loop / invoke_from_event_   *)
(* loop, which this program does not use).  The window is created on the   *)
(* android_main thread (line 39).                                          *)

UpgradeAlways(thread) == TRUE

Upgrade(thread) == thread = UiThread /\ windowAlive

-----------------------------------------------------------------------------
Init ==
    /\ mainPc = "spawn"
    /\ windowAlive = TRUE
    /\ gps_text = Placeholder
    /\ displayed = ""
    /\ renders = 0
    /\ exited = FALSE
    /\ pc = "unspawned"
    /\ hung = FALSE
    /\ trace = <<>>
    /\ latitude = 0
    /\ result = NoResult
    /\ text = ""
    /\ applied = "none"
    /\ writes = 0
    /\ badWrite = FALSE
    /\ frameAfterApply = FALSE
    /\ spawns = 0

-----------------------------------------------------------------------------
(* Main thread: android_main *)

(* std::thread::spawn(move || ...) at line 44; the main thread goes on to  *)
(* window.run() without joining.                                           *)
SpawnWorker ==
    /\ mainPc = "spawn"
    /\ mainPc' = "run"
    /\ pc' = "start"
    /\ spawns' = spawns + 1
    /\ UNCHANGED <<windowAlive, displayed, renders, exited, frameAfterApply>>
    /\ UNCHANGED fetchVars
    /\ UNCHANGED applyVars

(* One iteration of the event loop inside window.run(): the LineEdit's     *)
(* text binding is re-evaluated from gps-text and the frame is drawn.      *)
UiRender ==
    /\ mainPc = "run"
    /\ windowAlive
    /\ renders < MaxRenders
    /\ displayed' = gps_text
    /\ renders' = renders + 1
    /\ frameAfterApply' = (applied # "none")
    /\ UNCHANGED <<mainPc, windowAlive, exited, spawns, pc>>
    /\ UNCHANGED fetchVars
    /\ UNCHANGED applyVars

CloseWindowAfterJoin ==
    /\ mainPc = "run"
    /\ pc = "done"
    /\ mainPc' = "returned"
    /\ windowAlive' = FALSE
    /\ UNCHANGED <<displayed, renders, exited, frameAfterApply, spawns, pc>>
    /\ UNCHANGED fetchVars
    /\ UNCHANGED applyVars

CloseWindowClearsText ==
    /\ mainPc = "run"
    /\ mainPc' = "returned"
    /\ windowAlive' = FALSE
    /\ gps_text' = ""
    /\ UNCHANGED <<displayed, renders, exited, frameAfterApply, spawns, pc>>
    /\ UNCHANGED fetchVars
    /\ UNCHANGED <<text, applied, writes, badWrite>>

(* The user closes the window: window.run() returns, android_main returns  *)
(* and `window`, the only strong handle, is dropped.                       *)
CloseWindow ==
    /\ mainPc = "run"
    /\ mainPc' = "returned"
    /\ windowAlive' = FALSE
    /\ UNCHANGED <<displayed, renders, exited, frameAfterApply, spawns, pc>>
    /\ UNCHANGED fetchVars
    /\ UNCHANGED applyVars

(* After android_main has returned the host may end the process, which     *)
(* stops the detached worker wherever it is.                               *)
ProcessExit ==
    /\ mainPc = "returned"
    /\ ~exited
    /\ exited' = TRUE
    /\ UNCHANGED <<mainPc, windowAlive, displayed, renders, frameAfterApply, spawns, pc>>
    /\ UNCHANGED fetchVars
    /\ UNCHANGED applyVars

-----------------------------------------------------------------------------
(* Worker thread: get_gps_coordinates *)

WorkerAt(p) == pc = p /\ ~hung /\ ~exited

(* `return Err(..)` / `?` / `Ok(..)`: the function returns to the match. *)
Return(r) == result' = r /\ pc' = "match"

Goto(p) == pc' = p /\ result' = result

(* env.new_string(..) succeeded before a call that takes a string. *)
StringArg == <<Step("new_string", "ret", 1)>>

NoArg == <<>>

(* env.new_string(..)? fails: the call it prepares is not made. *)
NewStringFails ==
    \E m \in InteropMsgs :
        /\ trace' = Append(trace, Step("new_string", "exc", 0))
        /\ hung' = hung
        /\ Return(ErrResult(m))

(* env.call_method(..)? or the typed accessor (.i()?, .l()?, .z()?, .d()?) *)
(* fails after the call was made.                                          *)
CallThrows(pre, name) ==
    \E m \in InteropMsgs :
        /\ trace' = trace \o pre \o <<Step(name, "exc", 0)>>
        /\ hung' = hung
        /\ Return(ErrResult(m))

(* The synchronous call never returns: there is no timeout. *)
CallHangs(pre, name) ==
    /\ trace' = trace \o pre \o <<Step(name, "hang", 0)>>
    /\ hung' = TRUE
    /\ Goto(pc)

CallReturns(pre, name, v) ==
    /\ trace' = trace \o pre \o <<Step(name, "ret", v)>>
    /\ hung' = hung

(* Lines 79-91: android_context(), the null check on both pointers,        *)
(* JavaVM::from_raw(..)? and vm.attach_current_thread()?.                  *)
GetContext ==
    /\ WorkerAt("start")
    /\ \/ /\ trace' = Append(trace, Step("android_context", "ret", 0))
          /\ Return(ErrResult(ErrContext))
       \/ \E m \in InteropMsgs :
            /\ trace' = trace \o <<Step("android_context", "ret", 1),
                                   Step("attach_current_thread", "exc", 0)>>
            /\ Return(ErrResult(m))
       \/ /\ trace' = trace \o <<Step("android_context", "ret", 1),
                                 Step("attach_current_thread", "ret", 1)>>
          /\ Goto("checkSelfPermission")
    /\ UNCHANGED <<hung, latitude>>
    /\ UNCHANGED uiVars
    /\ UNCHANGED applyVars

(* Lines 94-106 *)
CheckSelfPermission ==
    /\ WorkerAt("checkSelfPermission")
    /\ \/ NewStringFails
       \/ CallThrows(StringArg, "checkSelfPermission")
       \/ CallHangs(StringArg, "checkSelfPermission")
       \/ \E has_permission \in PermissionVals :
            /\ CallReturns(StringArg, "checkSelfPermission", has_permission)
            /\ IF has_permission # 0
               THEN Return(ErrResult(ErrPermission))
               ELSE Goto("getSystemService")
    /\ UNCHANGED latitude
    /\ UNCHANGED uiVars
    /\ UNCHANGED applyVars

(* Lines 109-121 *)
GetSystemService ==
    /\ WorkerAt("getSystemService")
    /\ \/ NewStringFails
       \/ CallThrows(StringArg, "getSystemService")
       \/ CallHangs(StringArg, "getSystemService")
       \/ \E location_service \in HandleVals :
            /\ CallReturns(StringArg, "getSystemService", location_service)
            /\ IF location_service = 0
               THEN Return(ErrResult(ErrService))
               ELSE Goto("isProviderEnabled")
    /\ UNCHANGED latitude
    /\ UNCHANGED uiVars
    /\ UNCHANGED applyVars

IsProviderEnabledUnchecked ==
    /\ WorkerAt("isProviderEnabled")
    /\ \/ NewStringFails
       \/ CallThrows(StringArg, "isProviderEnabled")
       \/ CallHangs(StringArg, "isProviderEnabled")
       \/ \E is_enabled \in BoolVals :
            /\ CallReturns(StringArg, "isProviderEnabled", is_enabled)
            /\ Goto("getLastKnownLocation")
    /\ UNCHANGED latitude
    /\ UNCHANGED uiVars
    /\ UNCHANGED applyVars

(* Lines 123-138 *)
IsProviderEnabled ==
    /\ WorkerAt("isProviderEnabled")
    /\ \/ NewStringFails
       \/ CallThrows(StringArg, "isProviderEnabled")
       \/ CallHangs(StringArg, "isProviderEnabled")
       \/ \E is_enabled \in BoolVals :
            /\ CallReturns(StringArg, "isProviderEnabled", is_enabled)
            /\ IF is_enabled = 0
               THEN Return(ErrResult(ErrProvider))
               ELSE Goto("getLastKnownLocation")
    /\ UNCHANGED latitude
    /\ UNCHANGED uiVars
    /\ UNCHANGED applyVars

GetLastKnownLocationRetry ==
    /\ WorkerAt("getLastKnownLocation")
    /\ \/ NewStringFails
       \/ CallThrows(StringArg, "getLastKnownLocation")
       \/ CallHangs(StringArg, "getLastKnownLocation")
       \/ \E location_obj \in HandleVals :
            /\ CallReturns(StringArg, "getLastKnownLocation", location_obj)
            /\ IF location_obj = 0
               THEN Goto("getLastKnownLocation")
               ELSE Goto("getLatitude")
    /\ UNCHANGED latitude
    /\ UNCHANGED uiVars
    /\ UNCHANGED applyVars

(* Lines 141-153 *)
GetLastKnownLocation ==
    /\ WorkerAt("getLastKnownLocation")
    /\ \/ NewStringFails
       \/ CallThrows(StringArg, "getLastKnownLocation")
       \/ CallHangs(StringArg, "getLastKnownLocation")
       \/ \E location_obj \in HandleVals :
            /\ CallReturns(StringArg, "getLastKnownLocation", location_obj)
            /\ IF location_obj = 0
               THEN Return(ErrResult(ErrNoLocation))
               ELSE Goto("getLatitude")
    /\ UNCHANGED latitude
    /\ UNCHANGED uiVars
    /\ UNCHANGED applyVars

(* Lines 156-158 *)
GetLatitude ==
    /\ WorkerAt("getLatitude")
    /\ \/ CallThrows(NoArg, "getLatitude") /\ UNCHANGED latitude
       \/ CallHangs(NoArg, "getLatitude") /\ UNCHANGED latitude
       \/ \E v \in CoordVals :
            /\ CallReturns(NoArg, "getLatitude", v)
            /\ latitude' = v
            /\ Goto("getLongitude")
    /\ UNCHANGED uiVars
    /\ UNCHANGED applyVars

(* Lines 160-164 *)
GetLongitude ==
    /\ WorkerAt("getLongitude")
    /\ \/ CallThrows(NoArg, "getLongitude")
       \/ CallHangs(NoArg, "getLongitude")
       \/ \E longitude \in CoordVals :
            /\ CallReturns(NoArg, "getLongitude", longitude)
            /\ Return(OkResult(latitude, longitude))
    /\ UNCHANGED latitude
    /\ UNCHANGED uiVars
    /\ UNCHANGED applyVars

-----------------------------------------------------------------------------
(* Worker thread: the closure around the fetch *)

(* Lines 47-50 and 59-61: the match arm builds its text. *)
FormatResult ==
    /\ WorkerAt("match")
    /\ text' = MatchText(result)
    /\ pc' = "apply"
    /\ UNCHANGED <<gps_text, applied, writes, badWrite>>
    /\ UNCHANGED fetchVars
    /\ UNCHANGED uiVars

ApplyResultIfWindow ==
    /\ WorkerAt("apply")
    /\ windowAlive
    /\ applied' = "alive"
    /\ pc' = "finish"
    /\ UNCHANGED <<gps_text, writes, badWrite, text>>
    /\ UNCHANGED fetchVars
    /\ UNCHANGED uiVars

(* Lines 52-57 and 63-68: if let Some(window) = window_weak.upgrade()      *)
(* { window.set_gps_text(..) } else { warn!(..) }.                         *)
ApplyResult ==
    /\ WorkerAt("apply")
    /\ applied' = IF windowAlive THEN "alive" ELSE "destroyed"
    /\ IF Upgrade(WorkerThread)
       THEN /\ gps_text' = text
            /\ writes' = writes + 1
            /\ badWrite' = (badWrite \/ ~windowAlive)
       ELSE UNCHANGED <<gps_text, writes, badWrite>>
    /\ pc' = "finish"
    /\ UNCHANGED text
    /\ UNCHANGED fetchVars
    /\ UNCHANGED uiVars

(* Line 72: the closing log line; the thread ends. *)
Finish ==
    /\ WorkerAt("finish")
    /\ pc' = "done"
    /\ UNCHANGED fetchVars
    /\ UNCHANGED uiVars
    /\ UNCHANGED applyVars

-----------------------------------------------------------------------------
Fetch ==
    \/ GetContext
    \/ CheckSelfPermission
    \/ GetSystemService
    \/ IsProviderEnabled
    \/ GetLastKnownLocation
    \/ GetLatitude
    \/ GetLongitude

Worker == Fetch \/ FormatResult \/ ApplyResult \/ Finish

Next ==
    \/ SpawnWorker
    \/ UiRender
    \/ CloseWindow
    \/ ProcessExit
    \/ Worker

Spec == Init /\ [][Next]_vars

(* The scheduler runs both threads: the main thread reaches the spawn, and *)
(* a worker step that stays possible is eventually taken.                  *)
FairSpec == Spec /\ WF_vars(SpawnWorker) /\ WF_vars(Worker)

-----------------------------------------------------------------------------
(* Vocabulary of the properties *)

(* The six methods get_gps_coordinates invokes on platform objects, in the *)
(* order of the source.                                                    *)
PlatformCalls ==
    <<"checkSelfPermission", "getSystemService", "isProviderEnabled",
      "getLastKnownLocation", "getLatitude", "getLongitude">>

PlatformCallSet == {PlatformCalls[i] : i \in 1..Len(PlatformCalls)}

IsPlatformCall(s) == s.call \in PlatformCallSet

IsContextStep(s) == s.call = "android_context"

(* The platform methods called so far, by name, in call order. *)
CallsMade ==
    LET made == SelectSeq(trace, IsPlatformCall)
    IN  [i \in 1..Len(made) |-> made[i].call]

IsPrefix(s, t) == Len(s) <= Len(t) /\ \A i \in 1..Len(s) : s[i] = t[i]

(* A step that returned and did not meet the failure condition checked on  *)
(* its value.                                                              *)
Passes(s) ==
    /\ s.status = "ret"
    /\ s.call = "android_context" => s.val # 0
    /\ s.call = "checkSelfPermission" => s.val = 0
    /\ s.call = "getSystemService" => s.val # 0
    /\ s.call = "isProviderEnabled" => s.val # 0
    /\ s.call = "getLastKnownLocation" => s.val # 0

(* The reason the fetch must give when step s is the first failing one. *)
ReasonMatches(s, reason) ==
    CASE s.status = "exc" -> reason \in InteropMsgs
      [] s.status = "ret" /\ s.call = "android_context" /\ s.val = 0 ->
            reason = ErrContext
      [] s.status = "ret" /\ s.call = "checkSelfPermission" /\ s.val # 0 ->
            reason = ErrPermission
      [] s.status = "ret" /\ s.call = "getSystemService" /\ s.val = 0 ->
            reason = ErrService
      [] s.status = "ret" /\ s.call = "isProviderEnabled" /\ s.val = 0 ->
            reason = ErrProvider
      [] s.status = "ret" /\ s.call = "getLastKnownLocation" /\ s.val = 0 ->
            reason = ErrNoLocation
      [] OTHER -> FALSE

Returned(name, v) ==
    \E i \in 1..Len(trace) :
        trace[i].call = name /\ trace[i].status = "ret" /\ trace[i].val = v

(* {:.4} of each modelled coordinate, worked out by hand: -46.625 and      *)
(* -23.5 are padded with zeros; 0.03125 and 0.09375 are exact ties and go  *)
(* to the even fourth digit.                                               *)
Expected4(v) ==
    CASE v = -1492 -> "-46.6250"
      [] v = -752  -> "-23.5000"
      [] v = 1     -> "0.0312"
      [] v = 3     -> "0.0938"

SuccessTexts ==
    {"Latitude: " \o Expected4(a) \o ", Longitude: " \o Expected4(b) :
        a \in CoordVals, b \in CoordVals}

Reasons ==
    InteropMsgs \cup {ErrContext, ErrPermission, ErrService, ErrProvider, ErrNoLocation}

FailureTexts == {"Erro: " \o r : r \in Reasons}

-----------------------------------------------------------------------------
(* C1: applying the fetch result is safe in every interleaving with the    *)
(* user closing the window.  No set_gps_text is ever performed on a        *)
(* destroyed window; and when the window is already destroyed at the apply *)
(* step (either match arm), the weak handle resolves to nothing, nothing   *)
(* is written, and the worker goes on to its end.                          *)
C1_ApplyIsSafe ==
    /\ ~badWrite
    /\ applied = "destroyed" =>
        /\ writes = 0
        /\ gps_text = Placeholder
        /\ pc \in {"finish", "done"}
        /\ (pc = "finish" /\ ~exited) => ENABLED Finish

C1_Witness ==
    /\ applied = "destroyed"
    /\ pc = "done"
    /\ result.kind = "Ok"

(* C2: if the fetch completes and the window still exists when the worker  *)
(* applies the result, gps-text is set to the result text; stated on the   *)
(* final state of the worker.                                              *)
C2_StatusSetWhenWindowAlive ==
    (pc = "done" /\ applied = "alive") => gps_text = text

(* C3: the fetch short-circuits.  At any moment every step but the last    *)
(* one performed has passed its check, so nothing follows a failing step;  *)
(* a Failure carries the reason of the last (hence first failing) step;    *)
(* and getLastKnownLocation is only ever called after the permission check *)
(* returned granted, the service handle was non-null and the provider was  *)
(* enabled.                                                                *)
C3_ShortCircuit ==
    /\ \A i \in 1..Len(trace) - 1 : Passes(trace[i])
    /\ result.kind = "Err" =>
        /\ Len(trace) > 0
        /\ ~Passes(trace[Len(trace)])
        /\ ReasonMatches(trace[Len(trace)], result.reason)
    /\ (\E i \in 1..Len(trace) : trace[i].call = "getLastKnownLocation") =>
        /\ Returned("checkSelfPermission", 0)
        /\ Returned("getSystemService", 1)
        /\ Returned("isProviderEnabled", 1)

C3_Witness ==
    /\ result = ErrResult(ErrProvider)
    /\ pc = "done"
    /\ CallsMade = <<"checkSelfPermission", "getSystemService", "isProviderEnabled">>

(* C4: when every check passes and both reads return, the fetch returns    *)
(* Success with exactly the value getLatitude returned as lat and the      *)
(* value getLongitude returned as lon; and it returns Success only then.   *)
C4_SuccessIsRaw ==
    /\ result.kind = "Ok" =>
        /\ \A i \in 1..Len(trace) : Passes(trace[i])
        /\ Returned("getLatitude", result.lat)
        /\ Returned("getLongitude", result.lon)
    /\ (\E v \in CoordVals : Returned("getLongitude", v)) => result.kind = "Ok"

C4_Witness ==
    /\ result.kind = "Ok"
    /\ result.lat = -752
    /\ result.lon = -1492
    /\ Returned("getLatitude", -752)
    /\ Returned("getLongitude", -1492)

(* C5: the text built for the UI is a function of the fetch outcome only.  *)
(* Success{lat, lon} gives "Latitude: <lat to 4 decimals>, Longitude:      *)
(* <lon to 4 decimals>" and never an "Erro" text; Failure{reason} gives    *)
(* "Erro: <reason>" and never a "Latitude" text.                           *)
C5_TextOfOutcome ==
    pc \in {"apply", "finish", "done"} =>
        /\ result.kind \in {"Ok", "Err"}
        /\ result.kind = "Ok" =>
            /\ text = "Latitude: " \o Expected4(result.lat)
                        \o ", Longitude: " \o Expected4(result.lon)
            /\ text \notin FailureTexts
        /\ result.kind = "Err" =>
            /\ text = "Erro: " \o result.reason
            /\ text \in FailureTexts
            /\ text \notin SuccessTexts
        /\ result = OkResult(-752, -1492) =>
            text = "Latitude: -23.5000, Longitude: -46.6250"
        /\ result = ErrResult(ErrProvider) =>
            text = "Erro: Provedor GPS está desativado"

C5_Witness ==
    /\ pc = "done"
    /\ result = OkResult(1, 3)
    /\ text = "Latitude: 0.0312, Longitude: 0.0938"

(* C6: ordering of the property write.  No platform call follows the       *)
(* worker's apply step, and a frame rendered after the worker applied its  *)
(* result to a live window shows the result text, not the old text.        *)
C6_RenderAfterApplyShowsResult ==
    /\ pc \in {"finish", "done"} => \A i \in 1..Len(trace) : trace[i].status # "hang"
    /\ (applied = "alive" /\ frameAfterApply) => displayed = text

(* C7: the UI thread never blocks on the worker.  While the event loop     *)
(* runs, the user can close the window and the loop can render, whatever   *)
(* the worker is doing; and when a platform call never returns the worker  *)
(* can take no further step and gps-text keeps its initial value.          *)
C7_UiNeverBlocks ==
    /\ mainPc = "run" =>
        /\ ENABLED CloseWindow
        /\ renders < MaxRenders => ENABLED UiRender
    /\ hung =>
        /\ ~ENABLED Worker
        /\ writes = 0
        /\ gps_text = Placeholder

C7_Witness ==
    /\ hung
    /\ mainPc = "run"
    /\ renders > 0
    /\ trace[Len(trace)] = Step("getLastKnownLocation", "hang", 0)

(* C8: one worker, one fetch, no retries.  At most one thread is spawned,  *)
(* the fetch is entered at most once, the platform methods called so far   *)
(* are an initial part of the six in source order (each at most once), and *)
(* the property is written at most once.                                   *)
C8_OnceNoRetry ==
    /\ spawns <= 1
    /\ pc # "unspawned" => spawns = 1
    /\ Len(SelectSeq(trace, IsContextStep)) <= 1
    /\ IsPrefix(CallsMade, PlatformCalls)
    /\ writes <= 1

C8_Witness ==
    /\ CallsMade = PlatformCalls
    /\ pc = "done"
    /\ spawns = 1

(* C9: the worker runs to completion unless a platform call never returns  *)
(* or the process is terminated first: under fair scheduling of the two    *)
(* threads, every run reaches the worker's final step, a hung call or the  *)
(* process exit.                                                           *)
C9_WorkerCompletes == <>(pc = "done" \/ hung \/ exited)

C9_Witness ==
    /\ pc = "done"
    /\ ~windowAlive
    /\ ~exited
    /\ result.kind = "Err"

(* C10: gps-text is always the initial placeholder or the text formatted   *)
(* from this run's fetch outcome; only the worker's apply step changes it, *)
(* and only if it has not been written before.                             *)
C10_TextInvariant ==
    /\ [](\/ gps_text = Placeholder
          \/ result.kind # "None" /\ gps_text = MatchText(result))
    /\ [][gps_text' # gps_text =>
            (pc = "apply" /\ pc' = "finish" /\ writes = 0 /\ writes' = 1)]_vars

C10_Witness ==
    /\ pc = "done"
    /\ mainPc = "returned"
    /\ result.kind = "Ok"
    /\ gps_text = Placeholder

====
